---- MODULE Spec2Model ----
(***************************************************************************)
(* Grid world state and placement subsystem of Abmarl.                     *)
(*                                                                         *)
(* PositionState (src/abmarl/sim/gridworld/state.py) gives the agents      *)
(* their starting cells on a Grid.  The Grid class itself                  *)
(* (abmarl/sim/gridworld/grid.py) and the move actor are not part of the   *)
(* sources at hand; they are modelled from the specification's Grid        *)
(* contract (section 4.1 and section 6).                                   *)
(***************************************************************************)
EXTENDS Integers, Sequences, FiniteSets, TLC

VARIABLES
    rows, cols,                    \* the grid's size
    agents,                        \* the agent collection, in insertion order
    overlapping,                   \* the grid's overlap policy: encoding -> set of encodings
    grid,                          \* cell -> set of occupants (agent ids)
    position,                      \* agent id -> recorded position, None when never placed
    ravelled_positions_available,  \* encoding -> list of ravelled cells
    result,                        \* how the last reset ended
    failed_agent,                  \* the agent the error of the last reset names, 0 if none
    placement_order,               \* agents placed by the last reset, in placement order
    prior_occupied,                \* the grid held an occupant when the last reset began
    move_result,                   \* the move made since the last reset, NoMove if none
    target_agent,                  \* MazePlacementState: the target agent, 0 for a plain PositionState
    maze_start,                    \* MazePlacementState: _maze_start, None while unset
    draws,                         \* the random draws of the last reset, in the order drawn
    construction,                  \* MazePlacementState: "pending", "built" or the error of __init__
    requested_target,              \* MazePlacementState: the target_agent argument of __init__
    barrier_encodings,             \* MazePlacementState: encodings of the maze's barrier cells
    free_encodings,                \* MazePlacementState: encodings of the maze's free cells
    barriers_near_target,          \* MazePlacementState: priority flag of the barrier class
    free_agents_far_from_target,   \* MazePlacementState: priority flag of the free class
    capabilities,                  \* agent id -> is it a HealthAgent, and its initial_health
    health,                        \* agent id -> health, Unspecified while never assigned
    health_result,                 \* how the last HealthState.reset ended, "none" before it
    heuristic_agents_mapping,      \* manager: the agents with a heuristic policy
    heuristic_agent_obs,           \* manager: the attribute of that name, once assigned
    manager_call,                  \* manager: the last call, what it passed on and returned
    episode,                       \* trainer: the episode generate_episode is producing
    region_state,                  \* region-based PositionState and its agents (admiral)
    carving                        \* the maze being generated

vars == <<rows, cols, agents, overlapping, grid, position, ravelled_positions_available,
          result, failed_agent, placement_order, prior_occupied, move_result,
          target_agent, maze_start, draws, construction, requested_target,
          barrier_encodings, free_encodings, barriers_near_target,
          free_agents_far_from_target, capabilities, health, health_result,
          heuristic_agents_mapping, heuristic_agent_obs, manager_call,
          episode, region_state, carving>>

\* The state HealthState works on.
healthVars == <<capabilities, health, health_result>>

\* The state of an InternallyHeuristicPoliciesManager.
managerVars == <<heuristic_agents_mapping, heuristic_agent_obs, manager_call>>

\* The state of the trainer, of the region-based PositionState and of the maze
\* generator.
otherVars == <<episode, region_state, carving>>

\* The arguments and the outcome of MazePlacementState.__init__.
mazeVars == <<construction, requested_target, barrier_encodings, free_encodings,
              barriers_near_target, free_agents_far_from_target>>

(***************************************************************************)
(* Bounds of the model.                                                    *)
(***************************************************************************)
MaxRows == 1
MaxCols == 2
MaxAgents == 2
MaxEncoding == 2
HealthScale == 4
MaxObs == 2

None == <<>>

NoMove == [agent |-> 0, from |-> None, to |-> None, ok |-> FALSE]

AllCells == (0 .. MaxRows - 1) \X (0 .. MaxCols - 1)
Cells == (0 .. rows - 1) \X (0 .. cols - 1)
NumCells == rows * cols
Encodings == 1 .. MaxEncoding

(***************************************************************************)
(* np.ravel_multi_index(position, (rows, cols)) and                        *)
(* np.unravel_index(n, shape=(rows, cols)).                                *)
(***************************************************************************)
Ravel(pos) == pos[1] * cols + pos[2]

Unravel(n) == <<n \div cols, n % cols>>

(***************************************************************************)
(* Agents.  An agent's id is its index in the collection; the collection   *)
(* is a dict, iterated in insertion order.                                 *)
(***************************************************************************)
AgentRecords == [encoding : Encodings, initial_position : AllCells \cup {None}]

AgentIds == 1 .. Len(agents)

Enc(a) == agents[a].encoding

RECURSIVE SeqsUpTo(_, _)
SeqsUpTo(S, n) ==
    IF n = 0 THEN {<<>>}
    ELSE LET shorter == SeqsUpTo(S, n - 1)
         IN  shorter \cup {Append(s, x) : s \in {t \in shorter : Len(t) = n - 1}, x \in S}

(***************************************************************************)
(* Overlap policies.  A missing key of the policy dict is the empty set    *)
(* (overlapping.get(encoding, {})).                                        *)
(***************************************************************************)
NoOverlap == [e \in Encodings |-> {}]

\* Every policy over the encodings 1 and 2; further encodings overlap nothing.
Policies ==
    { [e \in Encodings |-> IF e = 1 THEN o1 ELSE IF e = 2 THEN o2 ELSE {}] :
          o1 \in SUBSET (Encodings \cap {1, 2}), o2 \in SUBSET (Encodings \cap {1, 2}) }

(***************************************************************************)
(* Grid (modelled from the specification, section 4.1).                    *)
(***************************************************************************)
EmptyGrid == [c \in Cells |-> {}]

\* Grid.reset(): clears every cell to an empty occupant set.
GridReset(g) == EmptyGrid

\* Variant of GridQuery: no overlap check.
GridQueryAny(g, a, pos) == TRUE

\* Grid.query(agent, position): the cell is empty, or every occupant's encoding
\* is overlap-compatible with the agent's encoding, in both directions.
GridQuery(g, a, pos) ==
    \A o \in g[pos] : /\ Enc(o) \in overlapping[Enc(a)]
                      /\ Enc(a) \in overlapping[Enc(o)]

\* Variant of GridPlace: the position is recorded although the placement fails.
GridPlaceRecordsAlways(g, p, a, pos) ==
    IF GridQuery(g, a, pos)
    THEN [ok |-> TRUE,
          grid |-> [c \in DOMAIN g |-> IF c = pos THEN g[c] \cup {a} ELSE g[c]],
          position |-> [p EXCEPT ![a] = pos]]
    ELSE [ok |-> FALSE, grid |-> g, position |-> [p EXCEPT ![a] = pos]]

\* Grid.place(agent, position) -> bool, with the grid and the recorded positions
\* it leaves.
GridPlace(g, p, a, pos) ==
    IF GridQuery(g, a, pos)
    THEN [ok |-> TRUE,
          grid |-> [c \in DOMAIN g |-> IF c = pos THEN g[c] \cup {a} ELSE g[c]],
          position |-> [p EXCEPT ![a] = pos]]
    ELSE [ok |-> FALSE, grid |-> g, position |-> p]

\* Grid.remove(agent, position)
GridRemove(g, a, pos) == [c \in DOMAIN g |-> IF c = pos THEN g[c] \ {a} ELSE g[c]]

(***************************************************************************)
(* Python list operations used on the availability lists.                  *)
(***************************************************************************)
InList(list, x) == \E i \in 1 .. Len(list) : list[i] = x

\* list.remove(x) for x in the list: drops the first occurrence.
ListRemove(list, x) ==
    LET i == CHOOSE j \in 1 .. Len(list) :
                 list[j] = x /\ \A k \in 1 .. j - 1 : list[k] # x
    IN  SubSeq(list, 1, i - 1) \o SubSeq(list, i + 1, Len(list))

(***************************************************************************)
(* PositionState.  A reset in progress is a record                         *)
(*   grid, position : the grid and the agents' recorded positions          *)
(*   avail          : ravelled_positions_available                         *)
(*   result         : "running", or the exception that ended the reset     *)
(*   failed         : the agent named by that exception (0: none)          *)
(*   order          : the agents placed so far, in placement order         *)
(*   draws          : the random draws made so far, in the order drawn      *)
(***************************************************************************)
Raise(st, exc, a) == [st EXCEPT !.result = exc, !.failed = a]

\* Variant of BuildAvailablePositions: lists left by an earlier reset are kept.
BuildAvailablePositionsKeep(st) ==
    IF Len(agents) = 0
    THEN Raise(st, "MaxValueError", 0)
    ELSE IF st.avail # <<>>
    THEN st
    ELSE LET max_encoding == CHOOSE m \in Encodings :
                                 /\ \E a \in AgentIds : Enc(a) = m
                                 /\ \A a \in AgentIds : Enc(a) <= m
         IN  [st EXCEPT !.avail = [encoding \in 1 .. max_encoding |->
                                      [i \in 1 .. NumCells |-> i - 1]]]

\* _build_available_positions: every cell for every encoding 1..max_encoding;
\* max() of an empty list raises ValueError.
BuildAvailablePositions(st) ==
    IF Len(agents) = 0
    THEN Raise(st, "MaxValueError", 0)
    ELSE LET max_encoding == CHOOSE m \in Encodings :
                                 /\ \E a \in AgentIds : Enc(a) = m
                                 /\ \A a \in AgentIds : Enc(a) <= m
         IN  [st EXCEPT !.avail = [encoding \in 1 .. max_encoding |->
                                      [i \in 1 .. NumCells |-> i - 1]]]

\* The loop of _update_available_positions from encoding e on: the cell of the
\* agent just placed is removed from the list of every encoding that is not in
\* the agent's overlap set.  list.remove raises ValueError when the cell is not
\* in the list; the handler catches KeyError only, so the ValueError leaves
\* the reset.
RECURSIVE UpdateLoop(_, _, _)
UpdateLoop(st, a, e) ==
    IF e > Len(st.avail) THEN st
    ELSE IF e \notin overlapping[Enc(a)]
    THEN IF InList(st.avail[e], Ravel(st.position[a]))
         THEN UpdateLoop([st EXCEPT !.avail[e] = ListRemove(@, Ravel(st.position[a]))],
                         a, e + 1)
         ELSE Raise(st, "RemoveValueError", a)
    ELSE UpdateLoop(st, a, e + 1)

\* Variant of UpdateAvailablePositions: the cell is removed from the list of
\* every encoding, whatever the overlap policy.
UpdateAvailablePositionsAll(st, agent_just_placed) ==
    [st EXCEPT !.avail =
        [e \in DOMAIN st.avail |->
            IF InList(st.avail[e], Ravel(st.position[agent_just_placed]))
            THEN ListRemove(st.avail[e], Ravel(st.position[agent_just_placed]))
            ELSE st.avail[e]]]

\* Variant of UpdateAvailablePositions: the cell is removed from the list of the
\* placed agent's own encoding only.
UpdateAvailablePositionsOwn(st, agent_just_placed) ==
    [st EXCEPT !.avail =
        [e \in DOMAIN st.avail |->
            IF /\ e = Enc(agent_just_placed)
               /\ InList(st.avail[e], Ravel(st.position[agent_just_placed]))
            THEN ListRemove(st.avail[e], Ravel(st.position[agent_just_placed]))
            ELSE st.avail[e]]]

UpdateAvailablePositions(st, agent_just_placed) == UpdateLoop(st, agent_just_placed, 1)

\* assert self.grid.place(agent, cell); self._update_available_positions(agent)
PlaceAndUpdate(st, a, cell) ==
    LET placed == GridPlace(st.grid, st.position, a, cell)
    IN  IF ~placed.ok
        THEN Raise(st, "PlaceFailed", a)
        ELSE UpdateAvailablePositions(
                 [st EXCEPT !.grid = placed.grid,
                            !.position = placed.position,
                            !.order = Append(@, a)], a)

\* Variant of PlaceInitialPositionAgent: the agent is put on the first cell of
\* its encoding's list instead of its initial position.
PlaceInitialAtFirstAvailable(st, ip_agent_to_place) ==
    IF Len(st.avail[Enc(ip_agent_to_place)]) = 0
    THEN Raise(st, "CellNotAvailable", ip_agent_to_place)
    ELSE PlaceAndUpdate(st, ip_agent_to_place,
                        Unravel(st.avail[Enc(ip_agent_to_place)][1]))

\* Variant of PlaceInitialPositionAgent: no check of the availability list.
PlaceInitialUnchecked(st, ip_agent_to_place) ==
    PlaceAndUpdate(st, ip_agent_to_place, agents[ip_agent_to_place].initial_position)

\* _place_initial_position_agent
PlaceInitialPositionAgent(st, ip_agent_to_place) ==
    LET ravelled_initial_position == Ravel(agents[ip_agent_to_place].initial_position)
    IN  IF ~InList(st.avail[Enc(ip_agent_to_place)], ravelled_initial_position)
        THEN Raise(st, "CellNotAvailable", ip_agent_to_place)
        ELSE PlaceAndUpdate(st, ip_agent_to_place,
                            agents[ip_agent_to_place].initial_position)

\* _place_variable_position_agent, the random choice being the i-th element of
\* the encoding's list.
PlaceVariablePositionAgent(st, var_agent_to_place, i) ==
    LET ravelled_position == st.avail[Enc(var_agent_to_place)][i]
    IN  PlaceAndUpdate([st EXCEPT !.draws = Append(@, i)],
                       var_agent_to_place, Unravel(ravelled_position))

\* Variant of InitialPositionPass: the loop places nobody.
InitialPositionPassNone(st, a) == st

\* reset, first loop: agents with an initial position, in insertion order.
RECURSIVE InitialPositionPass(_, _)
InitialPositionPass(st, a) ==
    IF a > Len(agents) \/ st.result # "running" THEN st
    ELSE IF agents[a].initial_position # None
    THEN InitialPositionPass(PlaceInitialPositionAgent(st, a), a + 1)
    ELSE InitialPositionPass(st, a + 1)

\* Variant of VariablePositionPass: the loop places nobody.
VariablePositionPassNone(st, a) == {st}

\* Variant of VariablePositionPass: the ValueError of np.random.choice on an
\* empty list is not turned into the RuntimeError that names the agent.
RECURSIVE VariablePositionPassUncaught(_, _)
VariablePositionPassUncaught(st, a) ==
    IF a > Len(agents) \/ st.result # "running" THEN {st}
    ELSE IF agents[a].initial_position # None
    THEN VariablePositionPassUncaught(st, a + 1)
    ELSE IF Len(st.avail[Enc(a)]) = 0
    THEN {Raise(st, "ChoiceValueError", 0)}
    ELSE UNION { VariablePositionPassUncaught(PlaceVariablePositionAgent(st, a, i), a + 1) :
                    i \in 1 .. Len(st.avail[Enc(a)]) }

\* reset, second loop: agents without an initial position, in insertion order.
\* The set of the states the loop can end in, over all random choices;
\* np.random.choice of an empty list raises ValueError, turned into RuntimeError.
RECURSIVE VariablePositionPass(_, _)
VariablePositionPass(st, a) ==
    IF a > Len(agents) \/ st.result # "running" THEN {st}
    ELSE IF agents[a].initial_position # None
    THEN VariablePositionPass(st, a + 1)
    ELSE IF Len(st.avail[Enc(a)]) = 0
    THEN {Raise(st, "NoCellAvailable", a)}
    ELSE UNION { VariablePositionPass(PlaceVariablePositionAgent(st, a, i), a + 1) :
                    i \in 1 .. Len(st.avail[Enc(a)]) }

Finish(st) == IF st.result = "running" THEN [st EXCEPT !.result = "ok"] ELSE st

\* Variant of PositionStateReset: the grid is not cleared first.
PositionStateResetNoClear(g, p, av) ==
    LET kept == [grid |-> g, position |-> p, avail |-> av,
                 result |-> "running", failed |-> 0, order |-> <<>>, draws |-> <<>>]
        built == BuildAvailablePositions(kept)
    IN  {Finish(st) : st \in VariablePositionPass(InitialPositionPass(built, 1), 1)}

\* Variant of PositionStateReset: the random pass runs before the pass of the
\* agents with an initial position.
PositionStateResetRandomFirst(g, p, av) ==
    LET cleared == [grid |-> GridReset(g), position |-> p, avail |-> av,
                    result |-> "running", failed |-> 0, order |-> <<>>, draws |-> <<>>]
        built == BuildAvailablePositions(cleared)
    IN  {Finish(InitialPositionPass(st, 1)) : st \in VariablePositionPass(built, 1)}

\* PositionState.reset from grid g, recorded positions p and availability av:
\* the set of states it can end in.
PositionStateReset(g, p, av) ==
    LET cleared == [grid |-> GridReset(g), position |-> p, avail |-> av,
                    result |-> "running", failed |-> 0, order |-> <<>>, draws |-> <<>>]
        built == BuildAvailablePositions(cleared)
    IN  {Finish(st) : st \in VariablePositionPass(InitialPositionPass(built, 1), 1)}

(***************************************************************************)
(* Health.  A health is a number of [0,1], counted in steps of             *)
(* 1/HealthScale.  An initial_health of None, and the health of an agent   *)
(* that was never given one, is Unspecified.                               *)
(***************************************************************************)
Unspecified == -1

HealthValues == 0 .. HealthScale

\* np.random.uniform(0, 1): a value of [0, 1)
Uniform01 == 0 .. HealthScale - 1

NoHealthAgent == [health_agent |-> FALSE, initial_health |-> Unspecified]

\* The agents of a simulation in which no agent is a HealthAgent.
NoHealthState ==
    /\ capabilities = [a \in 1 .. Len(agents) |-> NoHealthAgent]
    /\ health = [a \in 1 .. Len(agents) |-> Unspecified]
    /\ health_result = "none"

(***************************************************************************)
(* Simulation managers.  A dict keyed by agent ids is a function on a set  *)
(* of agent ids; observations, rewards, dones and infos are values of      *)
(* 0..MaxObs.                                                              *)
(***************************************************************************)
ObsValues == 0 .. MaxObs

EmptyDict == <<>>

Dicts == UNION { [K -> ObsValues] : K \in SUBSET (1 .. Len(agents)) }

\* An attribute that has not been assigned.
NoAttribute == [assigned |-> FALSE, value |-> EmptyDict]

\* A call that returned nothing.
NoReturn == [given |-> FALSE, obs |-> EmptyDict, rewards |-> EmptyDict,
             dones |-> EmptyDict, infos |-> EmptyDict]

NoOutput == [obs |-> EmptyDict, rewards |-> EmptyDict, dones |-> EmptyDict,
             infos |-> EmptyDict]

NoCall == [call |-> "none", error |-> "none", wrapped |-> NoOutput,
           returned |-> NoReturn]

\* No InternallyHeuristicPoliciesManager wraps the simulation.
NoManager ==
    /\ heuristic_agents_mapping = {}
    /\ heuristic_agent_obs = NoAttribute
    /\ manager_call = NoCall

(***************************************************************************)
(* The trainer, the region-based PositionState and the maze generator      *)
(* while they are not in use.                                              *)
(***************************************************************************)
NoEpisode == [phase |-> "none", horizon |-> 0, j |-> 0, returned_obs |-> {},
              last_done |-> {}, obs |-> {}, acted |-> {}, reported_done |-> {},
              all_done |-> FALSE]

NoRegion == [region |-> 0, agents |-> <<>>, position |-> <<>>,
             was_reset |-> FALSE,
             last |-> [op |-> "none", agent |-> 0, target |-> <<>>]]

NoCarving == [phase |-> "none", rows |-> 0, cols |-> 0, start |-> <<>>,
              maze |-> <<>>, frontier |-> {}, carved |-> {}]

NoOthers ==
    /\ episode = NoEpisode
    /\ region_state = NoRegion
    /\ carving = NoCarving

(***************************************************************************)
(* The state after construction: the agents and the overlap policy are     *)
(* configuration; nothing has been placed.                                 *)
(***************************************************************************)
Configuration ==
    /\ rows \in 1 .. MaxRows
    /\ cols \in 1 .. MaxCols
    /\ agents \in { c \in SeqsUpTo(AgentRecords, MaxAgents) :
                        \A a \in 1 .. Len(c) :
                            c[a].initial_position \in Cells \cup {None} }
    /\ overlapping \in Policies
    /\ grid = EmptyGrid
    /\ position = [a \in 1 .. Len(agents) |-> None]
    /\ ravelled_positions_available = <<>>
    /\ result = "none"
    /\ failed_agent = 0
    /\ placement_order = <<>>
    /\ prior_occupied = FALSE
    /\ move_result = NoMove
    /\ maze_start = None
    /\ draws = <<>>
    /\ NoHealthState
    /\ NoManager
    /\ NoOthers

\* No MazePlacementState is part of the simulation.
PlainPositionState ==
    /\ target_agent = 0
    /\ construction = "plain"
    /\ requested_target = 0
    /\ barrier_encodings = {}
    /\ free_encodings = {}
    /\ barriers_near_target = FALSE
    /\ free_agents_far_from_target = FALSE

\* A simulation whose position state is a plain PositionState.
Init == Configuration /\ PlainPositionState

\* position_state.reset()
Reset ==
    /\ target_agent = 0
    /\ \E st \in PositionStateReset(grid, position, ravelled_positions_available) :
          /\ grid' = st.grid
          /\ position' = st.position
          /\ ravelled_positions_available' = st.avail
          /\ result' = st.result
          /\ failed_agent' = st.failed
          /\ placement_order' = st.order
          /\ draws' = st.draws
    /\ prior_occupied' = (grid # EmptyGrid)
    /\ move_result' = NoMove
    /\ UNCHANGED <<rows, cols, agents, overlapping, target_agent, maze_start, mazeVars, healthVars, managerVars, otherVars>>

\* A step of the move actor for agent a towards cell to (modelled from the
\* specification, section 6, and tests/sim/gridworld/test_wrapper.py): a move
\* onto the agent's own cell succeeds and changes nothing; otherwise the agent
\* is placed on the target cell and removed from its old cell when Grid.place
\* accepts it, and nothing changes when it does not.
MoveActor(g, p, a, to) ==
    IF to = p[a]
    THEN [ok |-> TRUE, grid |-> g, position |-> p]
    ELSE LET placed == GridPlace(g, p, a, to)
         IN  IF placed.ok
             THEN [placed EXCEPT !.grid = GridRemove(placed.grid, a, p[a])]
             ELSE placed

\* One actor step in an episode that was set up without error.
Move ==
    /\ result = "ok"
    /\ move_result = NoMove
    /\ \E a \in AgentIds, to \in Cells :
          LET moved == MoveActor(grid, position, a, to)
          IN  /\ grid' = moved.grid
              /\ position' = moved.position
              /\ move_result' = [agent |-> a, from |-> position[a], to |-> to,
                                 ok |-> moved.ok]
    /\ UNCHANGED <<rows, cols, agents, overlapping, ravelled_positions_available,
                   result, failed_agent, placement_order, prior_occupied,
                   target_agent, maze_start, draws, mazeVars, healthVars, managerVars, otherVars>>

\* The first reset of a simulation.
FirstReset == result = "none" /\ Reset

Next == FirstReset

Spec == Init /\ [][Next]_vars

(***************************************************************************)
(* Episodes with actor steps and repeated resets.  To keep the exploration *)
(* finite under every reset outcome and every move, this specification     *)
(* takes the simulations in which an agent's initial position, if it has   *)
(* one, is its home cell (the cell with the agent's index as ravelled      *)
(* index, wrapped around the grid) and at most one agent is placed at      *)
(* random; an episode holds at most one move.                              *)
(***************************************************************************)
Home(a) == Unravel((a - 1) % NumCells)

StepInit ==
    /\ Init
    /\ \A a \in AgentIds : agents[a].initial_position \in {None, Home(a)}
    /\ Cardinality({a \in AgentIds : agents[a].initial_position = None}) <= 1

StepNext == Reset \/ Move

SpecStep == StepInit /\ [][StepNext]_vars

(***************************************************************************)
(* Episodes that follow one another without actor steps: a reset may be    *)
(* followed by further resets, which start from whatever the episode       *)
(* before left in the grid, in the recorded positions and in the           *)
(* availability lists.  Any number of agents is placed at random.  The     *)
(* simulations taken are those without overlap whose fixed positions are   *)
(* home cells.                                                             *)
(***************************************************************************)
RepeatInit ==
    /\ Init
    /\ overlapping = NoOverlap
    /\ \A a \in AgentIds : agents[a].initial_position \in {None, Home(a)}

\* A reset of a simulation that has been reset before and whose last reset
\* began on an empty grid.
ResetAgain == result # "none" /\ ~prior_occupied /\ Reset

RepeatNext == FirstReset \/ ResetAgain

SpecRepeat == RepeatInit /\ [][RepeatNext]_vars

(***************************************************************************)
(* MazePlacementState.  Its reset clears the grid and calls its own        *)
(* _build_available_positions, which never returns:                        *)
(*  - it first tests the truth value of the target's initial position, a   *)
(*    two-element numpy array in this code base                            *)
(*    (tests/sim/gridworld/test_base.py builds agents with np.array), and  *)
(*    that test raises ValueError;                                         *)
(*  - without an initial position it draws a random start cell, generates  *)
(*    the maze and then collects the barrier cells in a set() with         *)
(*    range(<array>), set.append and set.sort, each of which raises        *)
(*    (TypeError or AttributeError).                                       *)
(* The assignment of ravelled_positions_available and the placement loops  *)
(* of reset are never reached; they are not modelled.                      *)
(***************************************************************************)
\* MazePlacementState.reset from grid g, n being the random start cell drawn
\* when the target has no initial position: the state it ends in and
\* _maze_start.
MazePlacementStateReset(g, p, av, n) ==
    LET cleared == [grid |-> GridReset(g), position |-> p, avail |-> av,
                    result |-> "running", failed |-> 0, order |-> <<>>, draws |-> <<>>]
    IN  IF agents[target_agent].initial_position # None
        THEN [st |-> Raise(cleared, "AmbiguousTruthValue", target_agent),
              start |-> maze_start]
        ELSE [st |-> Raise([cleared EXCEPT !.draws = <<n>>], "BarrierListError", 0),
              start |-> Unravel(n)]

\* Variant of TargetAgentSetter: any value is accepted.
TargetAgentSetterUnchecked(value) == [result |-> "built", target |-> value]

\* The target_agent setter, called by __init__: value 0 is None (the default of
\* the argument), a value beyond the collection is a grid world agent that is
\* not one of the simulation's agents.  Both assertions raise AssertionError.
TargetAgentSetter(value) ==
    IF value = 0
    THEN [result |-> "AssertionError", target |-> 0]
    ELSE IF value \notin AgentIds
    THEN [result |-> "AssertionError", target |-> 0]
    ELSE [result |-> "built", target |-> value]

\* The encodings given a class: barrier_encodings and free_encodings are
\* disjoint sets of encodings.
Classifications ==
    { c \in [barrier : SUBSET (Encodings \cap {1, 2}), free : SUBSET (Encodings \cap {1, 2})] :
          c.barrier \cap c.free = {} }

\* The arguments of MazePlacementState.__init__ other than the target.
MazeArguments ==
    /\ \E c \in Classifications :
          /\ barrier_encodings = c.barrier
          /\ free_encodings = c.free
    /\ barriers_near_target \in BOOLEAN
    /\ free_agents_far_from_target \in BOOLEAN

\* A simulation whose position state is a MazePlacementState that is about to
\* be constructed.  The simulations taken are those without overlap whose fixed
\* positions are home cells.
MazeInit ==
    /\ Configuration
    /\ overlapping = NoOverlap
    /\ \A a \in AgentIds : agents[a].initial_position \in {None, Home(a)}
    /\ MazeArguments
    /\ target_agent = 0
    /\ construction = "pending"
    /\ requested_target = 0

\* MazePlacementState(target_agent=value, ...)
MazeConstruct ==
    /\ construction = "pending"
    /\ \E value \in 0 .. Len(agents) + 1 :
          LET set == TargetAgentSetter(value)
          IN  /\ requested_target' = value
              /\ construction' = set.result
              /\ target_agent' = set.target
    /\ UNCHANGED <<rows, cols, agents, overlapping, grid, position,
                   ravelled_positions_available, result, failed_agent, placement_order,
                   prior_occupied, move_result, maze_start, draws, barrier_encodings,
                   free_encodings, barriers_near_target, free_agents_far_from_target,
                   healthVars, managerVars, otherVars>>

\* maze_placement_state.reset()
MazeReset ==
    /\ construction = "built"
    /\ \E n \in 0 .. NumCells - 1 :
          LET out == MazePlacementStateReset(grid, position,
                                             ravelled_positions_available, n)
          IN  /\ grid' = out.st.grid
              /\ position' = out.st.position
              /\ ravelled_positions_available' = out.st.avail
              /\ result' = out.st.result
              /\ failed_agent' = out.st.failed
              /\ placement_order' = out.st.order
              /\ draws' = out.st.draws
              /\ maze_start' = out.start
    /\ prior_occupied' = (grid # EmptyGrid)
    /\ move_result' = NoMove
    /\ UNCHANGED <<rows, cols, agents, overlapping, target_agent, mazeVars, healthVars, managerVars, otherVars>>

MazeNext == MazeConstruct \/ MazeReset

SpecMaze == MazeInit /\ [][MazeNext]_vars

(***************************************************************************)
(* MazePlacementState._place_variable_position_agent, called on a          *)
(* MazePlacementState whose ravelled_positions_available has been          *)
(* assigned: the reset never reaches the method, so it is applied to       *)
(* availability maps given from outside.  The property's setter accepts a  *)
(* dict of lists of ravelled cells; each encoding's list is its own list   *)
(* object, either empty or every cell of the grid in ascending order.      *)
(***************************************************************************)
\* The agent's class has its priority flag enabled.
Priority(a) ==
    \/ Enc(a) \in barrier_encodings /\ barriers_near_target
    \/ Enc(a) \in free_encodings /\ free_agents_far_from_target

\* _place_variable_position_agent of MazePlacementState: the set of states it
\* can end in.  list.pop() of an empty list raises IndexError, which the
\* handler for ValueError does not catch; super()'s method draws at random and
\* turns the ValueError of an empty list into the RuntimeError naming the agent.
MazePlaceVariablePositionAgent(st, var_agent_to_place) ==
    LET list == st.avail[Enc(var_agent_to_place)]
    IN  IF Priority(var_agent_to_place)
        THEN IF Len(list) = 0
             THEN {Raise(st, "PopIndexError", var_agent_to_place)}
             ELSE LET ravelled_position == list[Len(list)]
                  IN  {PlaceAndUpdate(
                          [st EXCEPT !.avail[Enc(var_agent_to_place)] =
                                         SubSeq(list, 1, Len(list) - 1)],
                          var_agent_to_place, Unravel(ravelled_position))}
        ELSE IF Len(list) = 0
             THEN {Raise(st, "NoCellAvailable", var_agent_to_place)}
             ELSE {PlaceVariablePositionAgent(st, var_agent_to_place, i) :
                      i \in 1 .. Len(list)}

\* A constructed MazePlacementState with an availability map, on an empty grid,
\* in a simulation whose agents have no initial position.
MazePlaceInit ==
    /\ rows \in 1 .. MaxRows
    /\ cols \in 1 .. MaxCols
    /\ agents \in { c \in SeqsUpTo(AgentRecords, MaxAgents) :
                        /\ Len(c) >= 1
                        /\ \A a \in 1 .. Len(c) : c[a].initial_position = None }
    /\ overlapping \in Policies
    /\ grid = EmptyGrid
    /\ position = [a \in 1 .. Len(agents) |-> None]
    /\ ravelled_positions_available \in
           [Encodings -> {<<>>, [i \in 1 .. NumCells |-> i - 1]}]
    /\ result = "none"
    /\ failed_agent = 0
    /\ placement_order = <<>>
    /\ prior_occupied = FALSE
    /\ move_result = NoMove
    /\ maze_start = None
    /\ draws = <<>>
    /\ NoHealthState
    /\ NoManager
    /\ NoOthers
    /\ MazeArguments
    /\ construction = "built"
    /\ target_agent \in AgentIds
    /\ requested_target = target_agent

\* maze_placement_state._place_variable_position_agent(agent), for an agent not
\* placed yet, while no call has raised.
MazePlaceVariable ==
    /\ construction = "built"
    /\ result \in {"none", "ok"}
    /\ \E a \in AgentIds \ {placement_order[i] : i \in 1 .. Len(placement_order)} :
          \E st \in MazePlaceVariablePositionAgent(
                        [grid |-> grid, position |-> position,
                         avail |-> ravelled_positions_available, result |-> "running",
                         failed |-> 0, order |-> placement_order, draws |-> draws], a) :
              /\ grid' = st.grid
              /\ position' = st.position
              /\ ravelled_positions_available' = st.avail
              /\ result' = Finish(st).result
              /\ failed_agent' = st.failed
              /\ placement_order' = st.order
              /\ draws' = st.draws
    /\ UNCHANGED <<rows, cols, agents, overlapping, prior_occupied, move_result,
                   target_agent, maze_start, mazeVars, healthVars, managerVars, otherVars>>

MazePlaceNext == MazePlaceVariable

SpecMazePlace == MazePlaceInit /\ [][MazePlaceNext]_vars

(***************************************************************************)
(* HealthState.                                                            *)
(***************************************************************************)
\* Variant of HealthStateReset: an initial health is used when it is truthy.
HealthStateResetTruthy(h) ==
    { new \in [AgentIds -> HealthValues \cup {Unspecified}] :
          \A a \in AgentIds :
              IF capabilities[a].health_agent
              THEN IF capabilities[a].initial_health \notin {Unspecified, 0}
                   THEN new[a] = capabilities[a].initial_health
                   ELSE new[a] \in Uniform01
              ELSE new[a] = h[a] }

\* HealthState.reset from the healths h: the healths it can leave, over all
\* random draws.
HealthStateReset(h) ==
    { new \in [AgentIds -> HealthValues \cup {Unspecified}] :
          \A a \in AgentIds :
              IF capabilities[a].health_agent
              THEN IF capabilities[a].initial_health # Unspecified
                   THEN new[a] = capabilities[a].initial_health
                   ELSE new[a] \in Uniform01
              ELSE new[a] = h[a] }

\* A simulation with a HealthState: an agent is a HealthAgent or not, and a
\* HealthAgent has an initial health or none.
HealthInit ==
    /\ rows = 1
    /\ cols = 1
    /\ agents \in SeqsUpTo({[encoding |-> 1, initial_position |-> None]}, MaxAgents)
    /\ overlapping = NoOverlap
    /\ grid = EmptyGrid
    /\ position = [a \in 1 .. Len(agents) |-> None]
    /\ ravelled_positions_available = <<>>
    /\ result = "none"
    /\ failed_agent = 0
    /\ placement_order = <<>>
    /\ prior_occupied = FALSE
    /\ move_result = NoMove
    /\ maze_start = None
    /\ draws = <<>>
    /\ PlainPositionState
    /\ capabilities \in
           [1 .. Len(agents) ->
               {NoHealthAgent} \cup [health_agent : {TRUE},
                                     initial_health : HealthValues \cup {Unspecified}]]
    /\ health = [a \in 1 .. Len(agents) |-> Unspecified]
    /\ health_result = "none"
    /\ NoManager
    /\ NoOthers

\* health_state.reset()
HealthReset ==
    /\ health' \in HealthStateReset(health)
    /\ health_result' = "ok"
    /\ UNCHANGED <<rows, cols, agents, overlapping, grid, position,
                   ravelled_positions_available, result, failed_agent, placement_order,
                   prior_occupied, move_result, target_agent, maze_start, draws,
                   mazeVars, capabilities, managerVars, otherVars>>

HealthNext == HealthReset

SpecHealth == HealthInit /\ [][HealthNext]_vars

(***************************************************************************)
(* InternallyHeuristicPoliciesManager                                      *)
(* (src/abmarl/managers/heuristic_agents_manager.py).  Its __init__ calls  *)
(* super().__init__(self, manager, **kwargs), one positional argument more *)
(* than ManagerWrapper.__init__ takes, and raises TypeError for every      *)
(* argument.  reset and step are therefore taken on an instance whose      *)
(* attributes _manager and _heuristic_agents_mapping hold the wrapped      *)
(* manager and the mapping.  Both methods copy the observations with       *)
(* obs.items().copy(); a dict's items view has no copy method, so the      *)
(* call raises AttributeError before the loop that withholds the heuristic *)
(* agents' data, which is not reached and not modelled.                    *)
(***************************************************************************)
\* InternallyHeuristicPoliciesManager(manager, heuristic_agents_mapping)
ManagerInit(mapping) == "TypeError"

\* reset(): obs is what the wrapped manager's reset returned.
ManagerReset(obs) ==
    [stored |-> [assigned |-> TRUE, value |-> EmptyDict],
     call |-> [call |-> "reset", error |-> "AttributeError",
               wrapped |-> [NoOutput EXCEPT !.obs = obs],
               returned |-> NoReturn]]

\* step(action_dict) with the stored observations: out is what the wrapped
\* manager's step returned.  Before the first reset the attribute
\* heuristic_agent_obs does not exist and its read raises AttributeError.
ManagerStep(stored, out) ==
    IF ~stored.assigned
    THEN [stored |-> stored,
          call |-> [call |-> "step", error |-> "AttributeError", wrapped |-> NoOutput,
                    returned |-> NoReturn]]
    ELSE [stored |-> [assigned |-> TRUE, value |-> EmptyDict],
          call |-> [call |-> "step", error |-> "AttributeError", wrapped |-> out,
                    returned |-> NoReturn]]

\* A simulation wrapped by a manager whose heuristic agents are some of the
\* simulation's agents.
ManagerStart ==
    /\ rows = 1
    /\ cols = 1
    /\ agents \in SeqsUpTo({[encoding |-> 1, initial_position |-> None]}, MaxAgents)
    /\ overlapping = NoOverlap
    /\ grid = EmptyGrid
    /\ position = [a \in 1 .. Len(agents) |-> None]
    /\ ravelled_positions_available = <<>>
    /\ result = "none"
    /\ failed_agent = 0
    /\ placement_order = <<>>
    /\ prior_occupied = FALSE
    /\ move_result = NoMove
    /\ maze_start = None
    /\ draws = <<>>
    /\ PlainPositionState
    /\ NoHealthState
    /\ heuristic_agents_mapping \in SUBSET (1 .. Len(agents))
    /\ heuristic_agent_obs = NoAttribute
    /\ manager_call = NoCall
    /\ NoOthers

\* InternallyHeuristicPoliciesManager(manager, heuristic_agents_mapping=...)
Construct ==
    /\ manager_call.call = "none"
    /\ manager_call' = [NoCall EXCEPT !.call = "init",
                                      !.error = ManagerInit(heuristic_agents_mapping)]
    /\ UNCHANGED <<rows, cols, agents, overlapping, grid, position,
                   ravelled_positions_available, result, failed_agent, placement_order,
                   prior_occupied, move_result, target_agent, maze_start, draws,
                   mazeVars, healthVars, heuristic_agents_mapping, heuristic_agent_obs,
                   otherVars>>

\* manager.reset()
ManagerResetCall ==
    /\ \E obs \in Dicts :
          LET done == ManagerReset(obs)
          IN  /\ heuristic_agent_obs' = done.stored
              /\ manager_call' = done.call
    /\ UNCHANGED <<rows, cols, agents, overlapping, grid, position,
                   ravelled_positions_available, result, failed_agent, placement_order,
                   prior_occupied, move_result, target_agent, maze_start, draws,
                   mazeVars, healthVars, heuristic_agents_mapping, otherVars>>

\* manager.step(action_dict)
ManagerStepCall ==
    /\ \E d \in Dicts :
          LET done == ManagerStep(heuristic_agent_obs,
                                  [obs |-> d, rewards |-> d, dones |-> d, infos |-> d])
          IN  /\ heuristic_agent_obs' = done.stored
              /\ manager_call' = done.call
    /\ UNCHANGED <<rows, cols, agents, overlapping, grid, position,
                   ravelled_positions_available, result, failed_agent, placement_order,
                   prior_occupied, move_result, target_agent, maze_start, draws,
                   mazeVars, healthVars, heuristic_agents_mapping, otherVars>>

ManagerNext == Construct \/ ManagerResetCall \/ ManagerStepCall

SpecManager == ManagerStart /\ [][ManagerNext]_vars

\* No reset of a MazePlacementState returns normally.
MazeResetAlwaysRaises == construction # "plain" => result # "ok"

(***************************************************************************)
(* Properties.                                                             *)
(***************************************************************************)
Placed == {placement_order[i] : i \in 1 .. Len(placement_order)}

Fixed(a) == agents[a].initial_position # None

MutuallyCompatible(a, b) ==
    /\ Enc(a) \in overlapping[Enc(b)]
    /\ Enc(b) \in overlapping[Enc(a)]

Avail(a) == ravelled_positions_available[Enc(a)]

\* C1: after a reset that returns normally, two agents share a cell only if
\* each one's encoding is in the other's overlap set.
C1_NoIncompatibleOverlap ==
    result = "ok" =>
        \A c \in Cells : \A a \in grid[c], b \in grid[c] :
            a # b => MutuallyCompatible(a, b)

C1_Witness ==
    /\ result = "ok"
    /\ \E c \in Cells : Cardinality(grid[c]) >= 2
    /\ \E c \in Cells : grid[c] = {}

\* C2: after a reset that returns normally, every agent with an initial position
\* is recorded at that position and is an occupant of that cell and of no other.
C2_FixedAgentsAtInitialPosition ==
    result = "ok" =>
        \A a \in AgentIds :
            Fixed(a) =>
                /\ position[a] = agents[a].initial_position
                /\ \A c \in Cells : a \in grid[c] <=> c = agents[a].initial_position

C2_Witness ==
    /\ result = "ok"
    /\ \E a \in AgentIds, b \in AgentIds :
          /\ Fixed(a) /\ ~Fixed(b)
          /\ agents[a].initial_position # <<0, 0>>
          /\ position[a] = agents[a].initial_position

\* C3: after a reset that returns normally, every agent is an occupant of exactly
\* the cell recorded as its position, and a cell holds nobody else.
C3_GridAgreesWithAgents ==
    result = "ok" =>
        /\ \A a \in AgentIds :
              /\ position[a] \in Cells
              /\ \A c \in Cells : a \in grid[c] <=> c = position[a]
        /\ \A c \in Cells : grid[c] \subseteq AgentIds

C3_Witness ==
    /\ result = "ok"
    /\ cols = 2
    /\ Len(agents) = 2
    /\ Fixed(1) /\ Fixed(2)
    /\ grid[<<0, 0>>] = {2}
    /\ grid[<<0, 1>>] = {1}

\* C4: after a reset that returns normally, every agent's position is a
\* (row, col) with 0 <= row < rows and 0 <= col < cols.
C4_PositionsInBounds ==
    result = "ok" =>
        \A a \in AgentIds :
            /\ Len(position[a]) = 2
            /\ 0 <= position[a][1] /\ position[a][1] < rows
            /\ 0 <= position[a][2] /\ position[a][2] < cols

C4_Witness ==
    /\ result = "ok"
    /\ \E a \in AgentIds : ~Fixed(a) /\ position[a] = <<rows - 1, cols - 1>>
    /\ \E a \in AgentIds : Fixed(a)
    /\ cols = 2

\* C5: whatever the grid held before, after a reset (ended normally or by an
\* error) a cell holds exactly the agents this reset placed on it.
C5_OnlyThisResetsOccupants ==
    (result # "none" /\ move_result = NoMove) =>
        \A c \in Cells : grid[c] = {a \in Placed : position[a] = c}

C5_Witness ==
    /\ prior_occupied
    /\ result = "ok"
    /\ move_result = NoMove
    /\ Len(agents) = 2
    /\ \E c \in Cells : grid[c] = {}

\* C6: a random placement that finds its encoding's list empty ends the reset
\* with the no-cell-available error naming that agent; so on a 1x1 grid two
\* agents without initial positions that may not overlap give: first placed,
\* second raises.
C6_ExhaustionRaises ==
    /\ result = "NoCellAvailable" =>
          /\ failed_agent \in AgentIds
          /\ ~Fixed(failed_agent)
          /\ Avail(failed_agent) = <<>>
          /\ failed_agent \notin Placed
          /\ \A b \in AgentIds : (Fixed(b) \/ b < failed_agent) => b \in Placed
    /\ \A a \in AgentIds :
          ( /\ result \notin {"none", "MaxValueError", "RemoveValueError"}
            /\ ~Fixed(a)
            /\ a \notin Placed
            /\ \A b \in AgentIds : (Fixed(b) \/ b < a) => b \in Placed
            /\ Avail(a) = <<>> )
          => (result = "NoCellAvailable" /\ failed_agent = a)
    /\ ( /\ result # "none"
         /\ rows = 1 /\ cols = 1
         /\ Len(agents) = 2
         /\ ~Fixed(1) /\ ~Fixed(2)
         /\ Enc(2) \notin overlapping[Enc(1)] )
       => (result = "NoCellAvailable" /\ failed_agent = 2 /\ placement_order = <<1>>)

C6_Witness ==
    /\ result = "NoCellAvailable"
    /\ rows = 1 /\ cols = 1
    /\ Len(agents) = 2
    /\ ~Fixed(1) /\ ~Fixed(2)
    /\ failed_agent = 2
    /\ grid[<<0, 0>>] = {1}

\* C7: a fixed-position placement whose ravelled initial position is not in its
\* encoding's list ends the reset with the cell-not-available error, and the
\* agent is in no cell.
C7_UnavailableInitialPositionRaises ==
    /\ result = "CellNotAvailable" =>
          /\ failed_agent \in AgentIds
          /\ Fixed(failed_agent)
          /\ ~InList(Avail(failed_agent), Ravel(agents[failed_agent].initial_position))
          /\ failed_agent \notin Placed
          /\ \A c \in Cells : failed_agent \notin grid[c]
    /\ \A a \in AgentIds :
          ( /\ result \notin {"none", "MaxValueError", "RemoveValueError"}
            /\ Fixed(a)
            /\ a \notin Placed
            /\ \A b \in AgentIds : (Fixed(b) /\ b < a) => b \in Placed
            /\ ~InList(Avail(a), Ravel(agents[a].initial_position)) )
          => (result = "CellNotAvailable" /\ failed_agent = a)

C7_Witness ==
    /\ result = "CellNotAvailable"
    /\ failed_agent = 2
    /\ Enc(1) # Enc(2)
    /\ agents[1].initial_position = agents[2].initial_position
    /\ grid[agents[2].initial_position] = {1}

\* C8: reset returns normally only when every agent has been placed, and a reset
\* that raises leaves no agent it placed in the grid.
C8_AllOrNothing ==
    /\ result = "ok" => Placed = AgentIds
    /\ result \notin {"none", "ok"} => \A c \in Cells : grid[c] = {}

\* C9: a placement on another cell succeeds, adds the agent to the cell and
\* records its position exactly when every occupant of the cell is compatible
\* with the agent in both directions; otherwise it returns false and leaves the
\* grid and the recorded positions as they were.
C9_PlaceContract ==
    [][ (move_result = NoMove /\ move_result' # NoMove) =>
          LET a == move_result'.agent
              to == move_result'.to
          IN  to # position[a] =>
                /\ move_result'.ok <=> \A o \in grid[to] : MutuallyCompatible(a, o)
                /\ move_result'.ok => (a \in grid'[to] /\ position'[a] = to)
                /\ ~move_result'.ok => (grid' = grid /\ position' = position) ]_vars

C9_Witness ==
    /\ move_result # NoMove
    /\ ~move_result.ok
    /\ position[move_result.agent] = move_result.from
    /\ move_result.agent \in grid[move_result.from]
    /\ grid[move_result.to] # {}

\* C18: a reset's outcome is a function of the configuration and of its random
\* draws: the reset just made, whatever the grid, the recorded positions and the
\* availability lists held before it, ended as the reset of the untouched
\* simulation that receives the same draws ends, with the same agents placed in
\* the same order on the same cells.
C18_DeterministicUpToDraws ==
    (result # "none" /\ move_result = NoMove) =>
        /\ \E st \in PositionStateReset(EmptyGrid, [a \in AgentIds |-> None], <<>>) :
               st.draws = draws
        /\ \A st \in PositionStateReset(EmptyGrid, [a \in AgentIds |-> None], <<>>) :
               st.draws = draws =>
                  /\ st.result = result
                  /\ st.order = placement_order
                  /\ st.grid = grid
                  /\ \A a \in Placed : st.position[a] = position[a]

C18_Witness ==
    /\ prior_occupied
    /\ result = "ok"
    /\ Len(draws) = 2
    /\ cols = 2
    /\ position[1] = <<0, 1>>
    /\ position[2] = <<0, 0>>

\* C19: the reset of a simulation without agents returns normally and leaves
\* every cell with an empty occupant set.
C19_EmptyCollectionResets ==
    (Len(agents) = 0 /\ result # "none") =>
        /\ result = "ok"
        /\ \A c \in Cells : grid[c] = {}

MazeResetRan == construction = "built" /\ result # "none"

\* C11: in a maze reset the start cell is the target's initial position when it
\* has one, cell (0,0) included, and a cell of the grid otherwise; after a reset
\* that returns normally the target is recorded at the start cell and is an
\* occupant of it.
C11_TargetAtMazeStart ==
    MazeResetRan =>
        /\ Fixed(target_agent) => maze_start = agents[target_agent].initial_position
        /\ ~Fixed(target_agent) => maze_start \in Cells
        /\ result = "ok" =>
              /\ position[target_agent] = maze_start
              /\ target_agent \in grid[maze_start]

\* C14: a MazePlacementState whose target is missing or is not one of the
\* simulation's agents fails at construction with an assertion error, and no
\* reset of it runs; a target of the simulation is accepted.
C14_TargetMustBeMember ==
    construction \notin {"plain", "pending"} =>
        /\ requested_target \notin AgentIds =>
              /\ construction = "AssertionError"
              /\ result = "none"
              /\ grid = EmptyGrid
              /\ target_agent = 0
        /\ requested_target \in AgentIds =>
              /\ construction = "built"
              /\ target_agent = requested_target

C14_Witness ==
    /\ construction = "AssertionError"
    /\ Len(agents) = 2
    /\ requested_target = 3
    /\ result = "none"

\* The agents of a class that the maze reset places at a cell of its choice.
BarrierAgents ==
    {a \in AgentIds : a # target_agent /\ ~Fixed(a) /\ Enc(a) \in barrier_encodings}

FreeAgents ==
    {a \in AgentIds : a # target_agent /\ ~Fixed(a) /\ Enc(a) \in free_encodings}

\* Distance of a placed agent's cell from the maze start: the absolute
\* difference of the ravelled indices.
Distance(a) ==
    LET d == Ravel(position[a]) - Ravel(maze_start)
    IN  IF d < 0 THEN 0 - d ELSE d

\* C12: in a maze reset with barriers_near_target the barrier-classified agents
\* without initial position each receive a cell, unless the reset stops with the
\* no-cell-available error, and in placement order their distances from the
\* maze start do not decrease.
C12_BarriersNearestFirst ==
    (MazeResetRan /\ barriers_near_target) =>
        /\ \A a \in BarrierAgents : a \in Placed \/ result = "NoCellAvailable"
        /\ \A i \in 1 .. Len(placement_order), j \in 1 .. Len(placement_order) :
              ( /\ i < j
                /\ placement_order[i] \in BarrierAgents
                /\ placement_order[j] \in BarrierAgents )
              => Distance(placement_order[i]) <= Distance(placement_order[j])

\* C13: in a maze reset with free_agents_far_from_target the free-classified
\* agents without initial position each receive a cell, unless the reset stops
\* with the no-cell-available error, and in placement order their distances
\* from the maze start do not increase.
C13_FreeFarthestFirst ==
    (MazeResetRan /\ free_agents_far_from_target) =>
        /\ \A a \in FreeAgents : a \in Placed \/ result = "NoCellAvailable"
        /\ \A i \in 1 .. Len(placement_order), j \in 1 .. Len(placement_order) :
              ( /\ i < j
                /\ placement_order[i] \in FreeAgents
                /\ placement_order[j] \in FreeAgents )
              => Distance(placement_order[i]) >= Distance(placement_order[j])

\* Some encoding number from 1 to the largest encoding of an agent is neither a
\* barrier encoding nor a free encoding.
PartitionIncomplete ==
    \E e \in Encodings :
        /\ \E a \in AgentIds : e <= Enc(a)
        /\ e \notin barrier_encodings \cup free_encodings

\* C15: a maze reset under an incomplete classification of the encodings stops
\* with the configuration error of the availability map, and places nobody.
C15_IncompletePartitionRaises ==
    (MazeResetRan /\ PartitionIncomplete) =>
        /\ result = "PartitionIncomplete"
        /\ Placed = {}

\* C16: a priority placement that finds the list of the agent's encoding empty
\* ends with the no-cell-available error for that agent.
C16_EmptyPriorityListRaises ==
    [][ \A a \in AgentIds :
          ( /\ construction = "built"
            /\ Priority(a)
            /\ a \notin Placed
            /\ ravelled_positions_available[Enc(a)] = <<>>
            /\ result' \notin {"none", "ok"}
            /\ failed_agent' = a )
          => result' = "NoCellAvailable" ]_vars

\* C17: after a reset of the health state every HealthAgent has its initial
\* health when one is specified and a health of [0,1] otherwise, and the agents
\* that are not HealthAgents were skipped without error: they have no health.
C17_HealthReset ==
    health_result # "none" =>
        /\ health_result = "ok"
        /\ \A a \in AgentIds :
              IF capabilities[a].health_agent
              THEN IF capabilities[a].initial_health # Unspecified
                   THEN health[a] = capabilities[a].initial_health
                   ELSE 0 <= health[a] /\ health[a] <= HealthScale
              ELSE health[a] = Unspecified

C17_Witness ==
    /\ health_result = "ok"
    /\ Len(agents) = 2
    /\ ~capabilities[1].health_agent
    /\ capabilities[2].health_agent
    /\ capabilities[2].initial_health = Unspecified
    /\ health[2] > 0

\* A dict without the entries of the heuristic agents.
WithoutHeuristic(d) == [a \in DOMAIN d \ heuristic_agents_mapping |-> d[a]]

\* C20: reset returns the wrapped manager's observations and step returns its
\* observations, rewards, dones and infos, each without the entries of the
\* heuristic agents and with the other agents' entries as the wrapped manager
\* gave them.
C20_HeuristicDataWithheld ==
    /\ manager_call.call = "reset" =>
          /\ manager_call.returned.given
          /\ manager_call.returned.obs = WithoutHeuristic(manager_call.wrapped.obs)
    /\ (manager_call.call = "step" /\ heuristic_agent_obs.assigned) =>
          /\ manager_call.returned.given
          /\ manager_call.returned.obs = WithoutHeuristic(manager_call.wrapped.obs)
          /\ manager_call.returned.rewards = WithoutHeuristic(manager_call.wrapped.rewards)
          /\ manager_call.returned.dones = WithoutHeuristic(manager_call.wrapped.dones)
          /\ manager_call.returned.infos = WithoutHeuristic(manager_call.wrapped.infos)

\* C24: the update of the availability lists after a placement skips an encoding
\* whose list no longer holds the cell: no reset ends with the error of removing
\* an absent cell, so a reset in which an agent joins another on a cell it may
\* share, a cell that a further encoding has lost already, goes on.
C24_UpdateToleratesAbsence == result # "RemoveValueError"

\* C25: every placement made by a reset is accepted by the grid, under
\* asymmetric overlap policies too: no reset ends with a failed placement
\* assertion.
C25_PlacementsSucceed == result # "PlaceFailed"

\* The agents placed on cell c.
PlacedAt(c) == {a \in Placed : position[a] = c}

\* C26 as stated: after a reset that returns normally, a cell whose occupants
\* all have an empty overlap set is still in the list of every encoding that
\* none of its occupants has.
C26_UnrelatedEncodingsKeepCell ==
    result = "ok" =>
        \A c \in Cells :
            (PlacedAt(c) # {} /\ \A o \in PlacedAt(c) : overlapping[Enc(o)] = {}) =>
                \A e \in DOMAIN ravelled_positions_available :
                    (\A o \in PlacedAt(c) : Enc(o) # e) =>
                        InList(ravelled_positions_available[e], Ravel(c))

\* C26, amended: after a reset that returns normally, a cell is in the list of
\* an encoding exactly when that encoding is in the overlap set of every
\* occupant of the cell; the cell of an agent with an empty overlap set is in no
\* encoding's list.
C26_CellKeptIffEveryOccupantAllows ==
    result = "ok" =>
        \A c \in Cells : \A e \in DOMAIN ravelled_positions_available :
            InList(ravelled_positions_available[e], Ravel(c))
                <=> \A o \in PlacedAt(c) : e \in overlapping[Enc(o)]

C26_Witness ==
    /\ result = "ok"
    /\ cols = 2
    /\ Len(agents) = 2
    /\ Enc(1) = 1 /\ Enc(2) = 2
    /\ overlapping[1] = {}
    /\ position[1] = <<0, 0>>
    /\ position[2] = <<0, 1>>
    /\ ~InList(ravelled_positions_available[2], 0)

\* C27: in a reset every agent with an initial position is placed before every
\* agent without one, agents of the same kind are placed in insertion order,
\* and one random draw is made for each agent without initial position that
\* was placed (and one more for the placement the grid refused).
C27_FixedFirstInInsertionOrder ==
    result # "none" =>
        /\ \A i \in 1 .. Len(placement_order), j \in 1 .. Len(placement_order) :
              i < j =>
                 \/ Fixed(placement_order[i]) /\ ~Fixed(placement_order[j])
                 \/ /\ Fixed(placement_order[i]) <=> Fixed(placement_order[j])
                    /\ placement_order[i] < placement_order[j]
        /\ LET drawn == Cardinality({a \in Placed : ~Fixed(a)})
           IN  Len(draws) = IF result = "PlaceFailed" /\ ~Fixed(failed_agent)
                            THEN drawn + 1 ELSE drawn

C27_Witness ==
    /\ result = "ok"
    /\ Len(agents) = 2
    /\ ~Fixed(1)
    /\ Fixed(2)
    /\ placement_order = <<2, 1>>
    /\ Len(draws) = 1

\* C30: after a reset, ended normally or by an error, a cell is missing from an
\* encoding's list only if an occupant of the cell has an overlap set without
\* that encoding; and when the reset ended with the no-cell-available error
\* for an agent, the grid accepts that agent on no cell.
C30_AvailabilityNeverUnderApproximates ==
    result \notin {"none", "MaxValueError"} =>
        /\ \A e \in DOMAIN ravelled_positions_available : \A c \in Cells :
              ~InList(ravelled_positions_available[e], Ravel(c)) =>
                  \E o \in grid[c] : e \notin overlapping[Enc(o)]
        /\ result = "NoCellAvailable" =>
              \A c \in Cells : ~GridQuery(grid, failed_agent, c)

C30_Witness ==
    /\ result = "NoCellAvailable"
    /\ cols = 1
    /\ Len(agents) = 2
    /\ Fixed(1)
    /\ failed_agent = 2
    /\ Enc(2) \notin overlapping[Enc(1)]
    /\ Enc(1) \in overlapping[Enc(1)]
    /\ grid[<<0, 0>>] = {1}

\* The phase of a maze reset that places an agent: the target, then the other
\* agents with an initial position, then the classified agents without one,
\* then the rest.
PlacementPhase(a) ==
    IF a = target_agent THEN 1
    ELSE IF Fixed(a) THEN 2
    ELSE IF Enc(a) \in barrier_encodings \cup free_encodings THEN 3
    ELSE 4

\* C28: a maze reset places the target first, at the start cell, then the other
\* agents phase by phase, no agent twice, and every agent once when the reset
\* returns normally.
C28_FourOrderedPhases ==
    MazeResetRan =>
        /\ Len(placement_order) >= 1
        /\ placement_order[1] = target_agent
        /\ position[target_agent] = maze_start
        /\ \A i \in 1 .. Len(placement_order), j \in 1 .. Len(placement_order) :
              i < j =>
                 /\ placement_order[i] # placement_order[j]
                 /\ PlacementPhase(placement_order[i]) <= PlacementPhase(placement_order[j])
        /\ result = "ok" => \A a \in AgentIds : a \in Placed

(***************************************************************************)
(* The simulation while only the trainer, the region-based PositionState   *)
(* or the maze generator is exercised: a grid without agents that no call  *)
(* touches.                                                                *)
(***************************************************************************)
NoSimulation ==
    /\ rows = 1
    /\ cols = 1
    /\ agents = <<>>
    /\ overlapping = NoOverlap
    /\ grid = EmptyGrid
    /\ position = <<>>
    /\ ravelled_positions_available = <<>>
    /\ result = "none"
    /\ failed_agent = 0
    /\ placement_order = <<>>
    /\ prior_occupied = FALSE
    /\ move_result = NoMove
    /\ maze_start = None
    /\ draws = <<>>
    /\ PlainPositionState
    /\ NoHealthState
    /\ NoManager

simulationVars == <<rows, cols, agents, overlapping, grid, position,
                    ravelled_positions_available, result, failed_agent,
                    placement_order, prior_occupied, move_result, target_agent,
                    maze_start, draws, mazeVars, healthVars, managerVars>>

(***************************************************************************)
(* Maze generation: generate_maze(rows, cols, start).  The maze is an      *)
(* array over the cells, 1 for a barrier and 0 for a free cell.  It starts *)
(* all barrier but for the anchor; the frontier holds the barrier cells    *)
(* next to the carved region that are still to be examined.                *)
(***************************************************************************)
MaxMazeRows == 2
MaxMazeCols == 3

MazeCells(r, c) == (0 .. r - 1) \X (0 .. c - 1)

Abs(x) == IF x < 0 THEN 0 - x ELSE x

\* Two cells share a side.
Adjacent(p, q) == Abs(p[1] - q[1]) + Abs(p[2] - q[2]) = 1

Neighbours(r, c, p) == {q \in MazeCells(r, c) : Adjacent(p, q)}

FreeCells(maze) == {p \in DOMAIN maze : maze[p] = 0}

\* Carving a frontier cell joins no two parts of the carved region and closes
\* no cycle exactly when the cell touches one free cell only.
CarveAlways(maze, r, c, w) == TRUE

CarveAllowed(maze, r, c, w) ==
    Cardinality(Neighbours(r, c, w) \cap FreeCells(maze)) = 1

\* generate_maze(r, c, start) is entered: everything is barrier but the anchor.
GenerateMazeCall ==
    /\ carving.phase \in {"none", "returned"}
    /\ \E r \in 1 .. MaxMazeRows, c \in 1 .. MaxMazeCols :
          \E start \in MazeCells(r, c) :
              carving' = [phase |-> "carving", rows |-> r, cols |-> c,
                          start |-> start,
                          maze |-> [p \in MazeCells(r, c) |->
                                        IF p = start THEN 0 ELSE 1],
                          frontier |-> Neighbours(r, c, start),
                          carved |-> {}]
    /\ UNCHANGED <<simulationVars, episode, region_state>>

\* One iteration of the loop: a random frontier cell leaves the frontier and is
\* carved if that is allowed; the barrier cells next to a carved cell enter the
\* frontier.
GenerateMazeCarve ==
    /\ carving.phase = "carving"
    /\ carving.frontier # {}
    /\ \E w \in carving.frontier :
          LET r == carving.rows
              c == carving.cols
              carve == carving.maze[w] = 1 /\ CarveAllowed(carving.maze, r, c, w)
              maze == [p \in MazeCells(r, c) |->
                          IF carve /\ p = w THEN 0 ELSE carving.maze[p]]
              walls == IF carve
                       THEN {q \in Neighbours(r, c, w) : carving.maze[q] = 1}
                       ELSE {}
          IN  carving' = [carving EXCEPT
                              !.maze = maze,
                              !.frontier = (carving.frontier \ {w}) \cup walls,
                              !.carved = IF carve THEN carving.carved \cup {w}
                                         ELSE carving.carved]
    /\ UNCHANGED <<simulationVars, episode, region_state>>

\* The frontier is empty: the maze is returned.
GenerateMazeReturn ==
    /\ carving.phase = "carving"
    /\ carving.frontier = {}
    /\ carving' = [carving EXCEPT !.phase = "returned"]
    /\ UNCHANGED <<simulationVars, episode, region_state>>

GenMazeInit ==
    /\ NoSimulation
    /\ NoOthers

GenMazeNext == GenerateMazeCall \/ GenerateMazeCarve \/ GenerateMazeReturn

SpecGenMaze == GenMazeInit /\ [][GenMazeNext]_vars

\* The free cells reached from the cells of S through free cells sharing a side.
RECURSIVE ReachFrom(_, _)
ReachFrom(free, S) ==
    LET more == S \cup {p \in free : \E q \in S : Adjacent(p, q)}
    IN  IF more = S THEN S ELSE ReachFrom(free, more)

\* C29: the maze returned is an array of 0 and 1 over the rows x cols cells in
\* which the anchor is free, every free cell is reached from the anchor through
\* free cells sharing a side, the free cells have one adjacency fewer than
\* cells (so, being connected, no cycle), and every cell never carved, the
\* anchor apart, is a barrier.
C29_MazeIsTreeFromAnchor ==
    carving.phase = "returned" =>
        LET maze == carving.maze
            free == FreeCells(maze)
        IN  /\ DOMAIN maze = MazeCells(carving.rows, carving.cols)
            /\ \A p \in DOMAIN maze : maze[p] \in {0, 1}
            /\ maze[carving.start] = 0
            /\ ReachFrom(free, {carving.start}) = free
            /\ Cardinality({e \in free \X free : Adjacent(e[1], e[2])})
                   = 2 * (Cardinality(free) - 1)
            /\ \A p \in DOMAIN maze :
                   p \notin carving.carved \cup {carving.start} => maze[p] = 1

\* A returned 2x2 maze: three free cells and the barrier that would have closed
\* the cycle.
C29_Witness ==
    /\ carving.phase = "returned"
    /\ carving.rows = 2
    /\ carving.cols = 2
    /\ Cardinality(FreeCells(carving.maze)) = 3
    /\ Cardinality(carving.carved) = 2

(***************************************************************************)
(* MultiAgentTrainer.generate_episode(horizon).  The simulation's agents   *)
(* are 1..MaxAgents; an observation, action or done dictionary is the set  *)
(* of its agent keys (for a done dictionary: of the agents whose value is  *)
(* true) and the '__all__' entry is a boolean of its own.  What the        *)
(* simulation returns is any such dictionary.                              *)
(***************************************************************************)
MaxHorizon == 3

TrainerAgents == 1 .. MaxAgents

\* compute_actions(obs): one action for every agent in the observation.
ComputeActions(obs) == obs

\* "for agent_id, agent_done in done.items(): if agent_done: del obs[agent_id]"
KeepDoneAgents(obs, done) == obs

DropDoneAgents(obs, done) == obs \ done

\* The loop takes another iteration: range(horizon) is not exhausted and the
\* last done dictionary did not break out of it.
LoopIgnoresAllDone(ep) == ep.j < ep.horizon

LoopContinues(ep) == ep.j < ep.horizon /\ ~ep.all_done

\* generate_episode(horizon) up to the loop: the simulation is reset, nobody
\* is done.
GenerateEpisodeCall ==
    /\ episode.phase # "running"
    /\ \E horizon \in 0 .. MaxHorizon, obs \in SUBSET TrainerAgents :
          episode' = [phase |-> "running", horizon |-> horizon, j |-> 0,
                      returned_obs |-> obs, last_done |-> {}, obs |-> obs,
                      acted |-> {}, reported_done |-> {}, all_done |-> FALSE]
    /\ UNCHANGED <<simulationVars, region_state, carving>>

\* One iteration of the loop: the actions for the current observations, the
\* step of the simulation, and the removal of the done agents' observations,
\* which raises KeyError for a done agent without an observation.
GenerateEpisodeStep ==
    /\ episode.phase = "running"
    /\ LoopContinues(episode)
    /\ \E obs \in SUBSET TrainerAgents, done \in SUBSET TrainerAgents,
          all \in BOOLEAN :
          episode' = [episode EXCEPT
                         !.acted = ComputeActions(episode.obs),
                         !.j = episode.j + 1,
                         !.returned_obs = obs,
                         !.last_done = done,
                         !.reported_done = episode.reported_done \cup done,
                         !.all_done = all,
                         !.obs = IF all THEN obs ELSE DropDoneAgents(obs, done),
                         !.phase = IF ~all /\ ~(done \subseteq obs)
                                   THEN "KeyError" ELSE "running"]
    /\ UNCHANGED <<simulationVars, region_state, carving>>

\* The loop is over: the episode's data is returned.
GenerateEpisodeReturn ==
    /\ episode.phase = "running"
    /\ ~LoopContinues(episode)
    /\ episode' = [episode EXCEPT !.phase = "returned"]
    /\ UNCHANGED <<simulationVars, region_state, carving>>

EpisodeInit ==
    /\ NoSimulation
    /\ NoOthers

EpisodeNext == GenerateEpisodeCall \/ GenerateEpisodeStep \/ GenerateEpisodeReturn

SpecEpisode == EpisodeInit /\ [][EpisodeNext]_vars

\* The trainer is a sequential program: a call that can take its next step
\* takes it.
SpecEpisodeFair == SpecEpisode /\ WF_vars(EpisodeNext)

EpisodeOver == episode.phase \in {"returned", "KeyError"}

\* C21: generate_episode ends; it never steps the simulation more than horizon
\* times, and takes no step once a done dictionary had '__all__' true.
C21_EpisodeTerminates ==
    /\ [](episode.j <= episode.horizon)
    /\ [][(episode.phase = "running" /\ episode.all_done)
              => episode'.j = episode.j /\ episode'.phase = "returned"]_vars
    /\ (episode.phase = "running") ~> EpisodeOver

\* An episode that returned before its horizon because the simulation was
\* all-done at the first step.
C21_Witness ==
    /\ episode.phase = "returned"
    /\ episode.all_done
    /\ episode.j = 1
    /\ episode.horizon = 2

MaxRegion == 2

RegionCells(region) == (0 .. region - 1) \X (0 .. region - 1)

RegionAgents(region) ==
    { <<first, second>> :
        first \in [position_agent : {TRUE},
                   starting_position : RegionCells(region) \cup {None}],
        second \in [position_agent : BOOLEAN, starting_position : {None}] }

\* "0 <= _position[0] < self.region and 0 <= _position[1] < self.region"
AnyPosition(region, p) == TRUE

WithinRegion(region, p) ==
    /\ 0 <= p[1] /\ p[1] < region
    /\ 0 <= p[2] /\ p[2] < region

NoRegionCall == [op |-> "none", agent |-> 0, target |-> None]

\* PositionState.set_position(agent, _position) on the positions pos.
SetPosition(st, pos, a, p) ==
    IF st.agents[a].position_agent /\ WithinRegion(st.region, p)
    THEN [b \in DOMAIN pos |-> IF b = a THEN p ELSE pos[b]]
    ELSE pos

\* PositionState(region=region, agents=agents)
RegionInit ==
    /\ NoSimulation
    /\ episode = NoEpisode
    /\ carving = NoCarving
    /\ \E region \in 1 .. MaxRegion :
          \E ags \in RegionAgents(region) :
              region_state = [region |-> region, agents |-> ags,
                              position |-> <<None, None>>,
                              was_reset |-> FALSE, last |-> NoRegionCall]

\* position_state.reset(): the starting position, or a random cell of the
\* region, for every PositionAgent.
RegionReset ==
    /\ \E drawn \in [DOMAIN region_state.agents -> RegionCells(region_state.region)] :
          region_state' = [region_state EXCEPT
              !.position = [a \in DOMAIN region_state.agents |->
                               IF ~region_state.agents[a].position_agent
                               THEN region_state.position[a]
                               ELSE IF region_state.agents[a].starting_position # None
                               THEN region_state.agents[a].starting_position
                               ELSE drawn[a]],
              !.was_reset = TRUE,
              !.last = [op |-> "reset", agent |-> 0, target |-> None]]
    /\ UNCHANGED <<simulationVars, episode, carving>>

\* position_state.set_position(agent, _position)
RegionSetPosition ==
    /\ \E a \in DOMAIN region_state.agents,
          p \in (-1 .. region_state.region) \X (-1 .. region_state.region) :
          region_state' = [region_state EXCEPT
              !.position = SetPosition(region_state, region_state.position, a, p),
              !.last = [op |-> "set_position", agent |-> a, target |-> p]]
    /\ UNCHANGED <<simulationVars, episode, carving>>

\* position_state.modify_position(agent, value): set_position to the sum of
\* the position and the value; the sum with a position never assigned raises
\* TypeError and nothing changes.
RegionModifyPosition ==
    /\ \E a \in DOMAIN region_state.agents, value \in (-1 .. 1) \X (-1 .. 1) :
          LET old == region_state.position[a]
              unset == region_state.agents[a].position_agent /\ old = None
              p == IF old = None THEN None
                   ELSE <<old[1] + value[1], old[2] + value[2]>>
          IN  region_state' = [region_state EXCEPT
                  !.position = IF old = None THEN region_state.position
                               ELSE SetPosition(region_state,
                                                region_state.position, a, p),
                  !.last = [op |-> IF unset THEN "TypeError" ELSE "modify_position",
                            agent |-> a, target |-> p]]
    /\ UNCHANGED <<simulationVars, episode, carving>>

RegionNext == RegionReset \/ RegionSetPosition \/ RegionModifyPosition

SpecRegion == RegionInit /\ [][RegionNext]_vars

\* C23: whatever calls were made, a PositionAgent's position, once assigned,
\* lies in the region, and after a reset every PositionAgent has one; a
\* set_position or modify_position whose target lies outside the region leaves
\* every position as it was.
C23_PositionsStayInRegion ==
    /\ [](\A a \in DOMAIN region_state.agents :
             region_state.agents[a].position_agent =>
                /\ region_state.was_reset => region_state.position[a] # None
                /\ region_state.position[a] # None =>
                      region_state.position[a] \in RegionCells(region_state.region))
    /\ [][( /\ region_state'.last.op \in {"set_position", "modify_position"}
            /\ region_state'.last.target # None
            /\ region_state'.last.target \notin RegionCells(region_state.region) )
          => region_state'.position = region_state.position]_vars

\* In a region of size 2 the first agent, at (1,1), was asked to move to (2,1)
\* and stayed.
C23_Witness ==
    /\ region_state.region = 2
    /\ region_state.last = [op |-> "modify_position", agent |-> 1, target |-> <<2, 1>>]
    /\ region_state.position[1] = <<1, 1>>

=============================================================================
